---- MODULE Spec2Model ----
(***************************************************************************)
(* A model of the cans package: the Maybe container (Some / Nothing) and   *)
(* the memoizing Lazy container of src/src/cans/__init__.py.               *)
(*                                                                         *)
(* Four specifications share the variables below:                          *)
(*   Spec        single-threaded programs that build and force Lazies;     *)
(*   SpecInspect the same, with is_evaluated(), repr() and hash() as well; *)
(*   SpecThreads several threads forcing one Lazy, one bytecode-level step *)
(*               of Lazy.__call__ at a time;                               *)
(*   SpecMaybe   the pure Maybe operations applied to enumerated inputs.   *)
(***************************************************************************)
EXTENDS Integers, Sequences, FiniteSets, TLC

VARIABLES
    heap,     \* Spec, SpecThreads: the Lazy objects, by identity (index)
    evals,    \* per Lazy: how often its _evaluator has been invoked and returned
    flats,    \* the pairs <<outer, result>> of the flatten() calls so far
    last,     \* the last operation and what it returned or raised
    pc,       \* SpecThreads: each thread's position in Lazy.__call__
    tval,     \* SpecThreads: each thread's local value (evaluator result, return)
    overlap,  \* SpecThreads: two threads have been inside __call__ at once
    mop       \* SpecMaybe: the Maybe operation applied and its outcome

vars == <<heap, evals, flats, last, pc, tval, overlap, mop>>

---------------------------------------------------------------------------
(* Bounds of the model.                                                    *)

MaxLazy == 3       \* Lazy objects a program creates
MaxInt == 1        \* integer payloads are 0..MaxInt
NThreads == 2      \* threads of SpecThreads
MaxForces == 2     \* forces each thread of SpecThreads starts
MaxIdx == 2        \* slice and index arguments range over -MaxIdx..MaxIdx

---------------------------------------------------------------------------
(* Python values.  Every value is a record tagged by k, so that values of  *)
(* different Python types are comparable and unequal.                      *)

None == [k |-> "none"]
IntV(n) == [k |-> "int", n |-> n]
Ref(i) == [k |-> "lazy", id |-> i]
Pair(a, b) == [k |-> "tuple", a |-> a, b |-> b]
App(g, v) == [k |-> "app", g |-> g, x |-> v]
Exc(type, by) == [k |-> "exc", type |-> type, by |-> by]

\* What the evaluators of the model return: the two values a cache test by
\* value or by None would take for "no result yet" (other results are the
\* tuples of zip, the results of map and Lazy objects, all truthy).
Atoms == {None, IntV(0)}
\* The payloads of the Maybe operations.
Values == {None} \cup {IntV(n) : n \in 0..MaxInt}
Funcs == {"g"}

\* Python truthiness of a value: None and 0 are falsy; tuples of two items,
\* objects without __bool__/__len__ are truthy.
Truthy(v) == ~(v = None \/ v = IntV(0))

\* The outcome of a call: a returned value or a raised exception.
Ret(v) == [ok |-> TRUE, val |-> v]
Raise(e) == [ok |-> FALSE, val |-> e]

---------------------------------------------------------------------------
(* Maybe: Some(value) and the Nothing singleton.                           *)

Some(v) == [tag |-> "Some", value |-> v]
Nothing == [tag |-> "Nothing"]
NOTHING == Nothing

is_some(m) == m.tag = "Some"
is_nothing(m) == m.tag = "Nothing"

Some_bool_by_value(m) == m.tag = "Some" /\ Truthy(m.value)
\* Some.__bool__ is True, Nothing.__bool__ is False, whatever the value.
Maybe_bool(m) == IF m.tag = "Some" THEN TRUE ELSE FALSE

unwrap(m) ==
    IF m.tag = "Some" THEN Ret(m.value)
    ELSE Raise(Exc("TypeError", "unwrap"))

unwrap_or_falsy(m, default) ==
    IF m.tag = "Some" /\ Truthy(m.value) THEN m.value ELSE default
\* m.unwrap_or(_default)
unwrap_or(m, default) == IF m.tag = "Some" THEN m.value ELSE default

from_optional_falsy(v) == IF ~Truthy(v) THEN NOTHING ELSE Some(v)
from_optional(v) == IF v = None THEN NOTHING ELSE Some(v)

as_optional(m) == IF m.tag = "Some" THEN m.value ELSE None

\* A slice object; start, stop and step are None or an int.
Slice(start, stop, step) ==
    [k |-> "slice", start |-> start, stop |-> stop, step |-> step]

\* slice.indices(length), as CPython computes it: <<start, stop, step>>.
\* The step must not be 0 (ValueError, raised by the callers below).
SliceIndices(sl, length) ==
    LET step == IF sl.step = None THEN 1 ELSE sl.step.n
        lower == IF step < 0 THEN -1 ELSE 0
        upper == IF step < 0 THEN length - 1 ELSE length
        Clamp(x) ==
            IF x < 0
            THEN (IF x + length < lower THEN lower ELSE x + length)
            ELSE (IF x > upper THEN upper ELSE x)
        start == IF sl.start = None
                 THEN (IF step < 0 THEN upper ELSE lower)
                 ELSE Clamp(sl.start.n)
        stop == IF sl.stop = None
                THEN (IF step < 0 THEN lower ELSE upper)
                ELSE Clamp(sl.stop.n)
    IN  <<start, stop, step>>

Some_getitem_like_list(self, i) ==
    IF i.k = "slice"
    THEN IF i.step = IntV(0)
         THEN Raise(Exc("ValueError", "slice"))
         ELSE IF <<SliceIndices(i, 1)[1], SliceIndices(i, 1)[2]>> = <<0, 1>>
              THEN Ret(self) ELSE Ret(NOTHING)
    ELSE IF i.n \in {0, -1} THEN Ret(self.value)
    ELSE Raise(Exc("IndexError", "Some"))
Some_getitem_any_index(self, i) ==
    IF i.k = "slice"
    THEN IF i.step = IntV(0)
         THEN Raise(Exc("ValueError", "slice"))
         ELSE IF <<SliceIndices(i, 1)[1], SliceIndices(i, 1)[2]>> = <<0, 1>>
              THEN Ret(self) ELSE Ret(NOTHING)
    ELSE Ret(self.value)
\* Some.__getitem__
Some_getitem(self, i) ==
    IF i.k = "slice"
    THEN IF i.step = IntV(0)
         THEN Raise(Exc("ValueError", "slice"))
         ELSE IF <<SliceIndices(i, 1)[1], SliceIndices(i, 1)[2]>> = <<0, 1>>
              THEN Ret(self) ELSE Ret(NOTHING)
    ELSE IF i.n = 0 THEN Ret(self.value)
    ELSE Raise(Exc("IndexError", "Some"))

\* Nothing.__getitem__
Nothing_getitem(self, i) ==
    IF i.k = "slice" THEN Ret(NOTHING)
    ELSE Raise(Exc("IndexError", "Nothing"))

\* m[i], dispatched on the variant.
Maybe_getitem(m, i) ==
    IF m.tag = "Some" THEN Some_getitem(m, i) ELSE Nothing_getitem(m, i)

---------------------------------------------------------------------------
(* The other Maybe methods, each with its Some and its Nothing body.  A    *)
(* callback is a function of the model (f[v] is f(v)); a method taking a   *)
(* callback gives its outcome together with calls, the arguments it passed *)
(* to the callback, in order.                                              *)

BoolV(b) == [k |-> "bool", b |-> b]
ListV(s) == [k |-> "list", items |-> s]

RetC(v, calls) == [ok |-> TRUE, val |-> v, calls |-> calls]

\* m.expect(msg)
expect(m, msg) ==
    IF m.tag = "Some" THEN Ret(m.value)
    ELSE Raise(Exc("AssertionError", msg))

Maybe_map_optional(m, f) ==
    IF m.tag = "Some" THEN RetC(from_optional(f[m.value]), <<m.value>>)
    ELSE RetC(NOTHING, <<>>)
\* m.map(_func)
Maybe_map(m, f) ==
    IF m.tag = "Some" THEN RetC(Some(f[m.value]), <<m.value>>)
    ELSE RetC(NOTHING, <<>>)

Maybe_filter_result(m, f) ==
    IF m.tag = "Some"
    THEN RetC(IF Truthy(f[m.value]) THEN Some(f[m.value]) ELSE NOTHING, <<m.value>>)
    ELSE RetC(NOTHING, <<>>)
\* m.filter(_func): the result of _func is tested for truth
Maybe_filter(m, f) ==
    IF m.tag = "Some"
    THEN RetC(IF Truthy(f[m.value]) THEN m ELSE NOTHING, <<m.value>>)
    ELSE RetC(NOTHING, <<>>)

Maybe_flatmap_wrapped(m, f) ==
    IF m.tag = "Some" THEN RetC(Some(f[m.value]), <<m.value>>)
    ELSE RetC(NOTHING, <<>>)
\* m.flatmap(_func)
Maybe_flatmap(m, f) ==
    IF m.tag = "Some" THEN RetC(f[m.value], <<m.value>>)
    ELSE RetC(NOTHING, <<>>)

Maybe_zip_unguarded(m, other) ==
    IF m.tag = "Some"
    THEN LET u == unwrap(other)
         IN  IF u.ok THEN Ret(Some(Pair(m.value, u.val))) ELSE u
    ELSE Ret(NOTHING)
Maybe_zip_swapped(m, other) ==
    IF m.tag = "Some"
    THEN IF is_some(other)
         THEN Ret(Some(Pair(unwrap(other).val, m.value)))
         ELSE Ret(NOTHING)
    ELSE Ret(NOTHING)
\* m.zip(_other): Some((self._value, _other.unwrap())) if _other.is_some()
Maybe_zip(m, other) ==
    IF m.tag = "Some"
    THEN IF is_some(other)
         THEN LET u == unwrap(other)
              IN  IF u.ok THEN Ret(Some(Pair(m.value, u.val))) ELSE u
         ELSE Ret(NOTHING)
    ELSE Ret(NOTHING)

\* m.setdefault(_v)
Maybe_setdefault(m, v) == IF m.tag = "Some" THEN m ELSE Some(v)

Maybe_and_self(m, other) == IF m.tag = "Some" THEN m ELSE NOTHING
\* m.and_(_other), m & _other
Maybe_and(m, other) == IF m.tag = "Some" THEN other ELSE NOTHING

\* m.or_(_other), m | _other
Maybe_or(m, other) == IF m.tag = "Some" THEN m ELSE other

\* isinstance(v, Maybe)
IsMaybe(v) == "tag" \in DOMAIN v

Maybe_flatten_deep(m) ==
    IF m.tag = "Some"
    THEN IF IsMaybe(m.value) /\ m.value.tag = "Some" /\ IsMaybe(m.value.value)
         THEN m.value.value
         ELSE m.value
    ELSE NOTHING
\* m.flatten(): Some returns its value as it is, Nothing returns _NOTHING
Maybe_flatten(m) == IF m.tag = "Some" THEN m.value ELSE NOTHING

Maybe_iter_optional(m) ==
    IF m.tag = "Some" /\ m.value # None THEN <<m.value>> ELSE <<>>
\* list(m): Some yields its value, Nothing returns the empty iterator
Maybe_iter(m) == IF m.tag = "Some" THEN <<m.value>> ELSE <<>>

\* len(m)
Maybe_len(m) == IF m.tag = "Some" THEN 1 ELSE 0

\* An iterator: the items it runs over and how many it has yielded.
\* _EMPTY_ITERATOR = iter(()), the one object every Nothing.__iter__ returns.
EMPTY_ITERATOR == [items |-> <<>>, pos |-> 0]

\* iter(m): Some.__iter__ is a generator function, so each call starts a new
\* generator; Nothing.__iter__ returns the shared iterator in the state it
\* is in.
Maybe_iterator(m, shared) ==
    IF m.tag = "Some" THEN [items |-> Maybe_iter(m), pos |-> 0] ELSE shared

\* list(it): the items not yielded yet; the iterator is left exhausted.
Drain(it) ==
    [yielded |-> SubSeq(it.items, it.pos + 1, Len(it.items)),
     it |-> [it EXCEPT !.pos = Len(it.items)]]

\* list(m) and list(m) again, then len(m); the shared iterator of Nothing is
\* passed from the first iteration to the second.
Maybe_iter_twice(m) ==
    LET first == Drain(Maybe_iterator(m, EMPTY_ITERATOR))
        shared == IF m.tag = "Some" THEN EMPTY_ITERATOR ELSE first.it
        second == Drain(Maybe_iterator(m, shared))
    IN  [ok |-> TRUE, val |-> ListV(first.yielded),
         again |-> ListV(second.yielded), len |-> IntV(Maybe_len(m))]

RECURSIVE PyEq(_, _)
RECURSIVE Maybe_eq(_, _)
RECURSIVE PyHash(_)

\* a == b of Python values: None, ints, tuples (item by item) and Maybes;
\* values of different types are unequal.
PyEq(a, b) ==
    IF IsMaybe(a) /\ IsMaybe(b) THEN Maybe_eq(a, b)
    ELSE IF IsMaybe(a) \/ IsMaybe(b) THEN FALSE
    ELSE IF a.k # b.k THEN FALSE
    ELSE IF a.k = "int" THEN a.n = b.n
    ELSE IF a.k = "tuple" THEN PyEq(a.a, b.a) /\ PyEq(a.b, b.b)
    ELSE a.k = "none"

Maybe_eq_tag_only(a, b) == a.tag = b.tag
\* The __eq__ that @dataclass generates: the classes must be the same, then
\* the tuples of the fields are compared ((_value,) for Some, () for Nothing).
Maybe_eq(a, b) ==
    IF a.tag # b.tag THEN FALSE
    ELSE IF a.tag = "Some" THEN PyEq(a.value, b.value)
    ELSE TRUE

\* hash(t) of a tuple: a function of the hashes of its items, in order.
TupleHash(hs) == [h |-> "tuple", items |-> hs]

\* The __hash__ that @dataclass(frozen=True) generates: the hash of the tuple
\* of the fields.
Maybe_hash(m) ==
    IF m.tag = "Some" THEN TupleHash(<<PyHash(m.value)>>) ELSE TupleHash(<<>>)

\* hash(v): of an int its value (-1 hashes to -2), of None a constant.
PyHash(v) ==
    IF IsMaybe(v) THEN Maybe_hash(v)
    ELSE IF v.k = "int" THEN [h |-> "int", n |-> IF v.n = -1 THEN -2 ELSE v.n]
    ELSE IF v.k = "tuple" THEN TupleHash(<<PyHash(v.a), PyHash(v.b)>>)
    ELSE [h |-> "none"]

\* v in m: Some compares its value with ==, Nothing contains nothing
Maybe_contains(m, v) == IF m.tag = "Some" THEN PyEq(m.value, v) ELSE FALSE

\* The methods Maybe inherits from collections.abc.Sequence, which are built
\* on __getitem__, __len__ and __iter__.

\* Sequence.index(value): i = 0; while True: v = self[i] (IndexError ends the
\* search); return i if v is value or v == value; i += 1; at the end raise
\* ValueError.  probes are the indices tried.  The search is followed up to
\* index MaxIdx.
RECURSIVE IndexFrom(_, _, _, _)
IndexFrom(m, value, i, probes) ==
    LET r == Maybe_getitem(m, IntV(i))
        tried == Append(probes, i)
    IN  IF ~r.ok
        THEN [ok |-> FALSE, val |-> Exc("ValueError", "index"), probes |-> tried]
        ELSE IF PyEq(r.val, value)
        THEN [ok |-> TRUE, val |-> IntV(i), probes |-> tried]
        ELSE IF i >= MaxIdx
        THEN [ok |-> FALSE, val |-> Exc("Unfinished", "index"), probes |-> tried]
        ELSE IndexFrom(m, value, i + 1, tried)

Sequence_index(m, value) == IndexFrom(m, value, 0, <<>>)

\* Sequence.count(value): sum(1 for v in self if v is value or v == value)
Sequence_count(m, value) ==
    Cardinality({j \in 1..Len(Maybe_iter(m)) : PyEq(Maybe_iter(m)[j], value)})

\* Sequence.__reversed__: for i in reversed(range(len(self))): yield self[i]
Sequence_reversed(m) ==
    LET n == Maybe_len(m)
        got == [j \in 1..n |-> Maybe_getitem(m, IntV(n - j))]
    IN  IF \A j \in 1..n : got[j].ok
        THEN Ret(ListV([j \in 1..n |-> got[j].val]))
        ELSE Raise(Exc("IndexError", "reversed"))

\* canned.flatten(m): m.unwrap() if m.is_just() else m
canned_flatten(m) == IF is_some(m) THEN unwrap(m).val ELSE m

\* canned Just.flatmap / Nothing.flatmap: flatten(self.map(_f)) / _NOTHING
canned_flatmap(m, f) ==
    IF m.tag = "Some"
    THEN LET r == Maybe_map(m, f) IN RetC(canned_flatten(r.val), r.calls)
    ELSE RetC(NOTHING, <<>>)

---------------------------------------------------------------------------
(* Lazy: a heap of objects [evaluator, result].  An evaluator is the       *)
(* callable given to Lazy.__init__, by what it does when invoked:          *)
(*   fn     a caller's function returning ret (it may raise);              *)
(*   const  the lambda of Lazy.wrap, returning the wrapped value;          *)
(*   map    the lambda of Lazy.map:     _func(self());                     *)
(*   zip    the lambda of Lazy.zip:     (self(), _other());                *)
(*   flat   the lambda of Lazy.flatten: self()().                          *)

Ids == 1..Len(heap)

\* Lazy.__init__: the evaluator is kept and the result starts as _NOTHING.
Lazy_init(ev) == [evaluator |-> ev, result |-> NOTHING]

\* Lazy.is_evaluated
is_evaluated(lz) == is_some(lz.result)

\* The running program state a force works on.  trace lists the Lazies whose
\* evaluator was entered, in order; funcs the Lazies built by map whose _func
\* was invoked; raised is the Lazy whose function raised (0: none).
State0 ==
    [heap |-> heap, evals |-> evals, trace |-> <<>>, funcs |-> <<>>,
     raised |-> 0]

\* The evaluator of id is entered.
Entered(st, id) == [st EXCEPT !.trace = Append(@, id)]

\* The evaluator of id returns v.
Returned(st, id, v) ==
    [st |-> [st EXCEPT !.evals[id] = @ + 1], ok |-> TRUE, val |-> v]

Throw_cached(st, id) ==
    [st |-> [st EXCEPT !.raised = id, !.heap[id].result = Some(Exc("Error", id))],
     ok |-> FALSE, val |-> Exc("Error", id)]
\* A function called by the evaluator of Lazy id raises: the exception leaves
\* Some(self._evaluator()) before anything is assigned.
Throw(st, id) ==
    [st |-> [st EXCEPT !.raised = id], ok |-> FALSE, val |-> Exc("Error", id)]

Propagate_wrapped(r, id) ==
    [st |-> r.st, ok |-> FALSE, val |-> Exc("Wrapped", id)]
\* An exception of a nested force passes through the evaluator of id as it is.
Propagate(r, id) == [st |-> r.st, ok |-> FALSE, val |-> r.val]

Store_dropped(st, id, v) == st
\* self._result = Some(...)
Store(st, id, v) == [st EXCEPT !.heap[id].result = Some(v)]

RECURSIVE Lazy_call(_, _, _)
RECURSIVE Evaluate(_, _, _)

\* In the evaluators below, bad is the Lazy whose function raises in this
\* attempt (0: none does).  The first exception ends the attempt, so one
\* failure point per attempt covers every way an attempt can fail.

\* A caller's function, the evaluator of Lazy(f): it returns ret or raises.
FnEval(st, id, bad) ==
    IF bad = id THEN Throw(st, id)
    ELSE Returned(st, id, st.heap[id].evaluator.ret)

\* lambda: __value
ConstEval(st, id, bad) == Returned(st, id, st.heap[id].evaluator.ret)

MapEval_source_twice(st, id, bad) ==
    LET ev == st.heap[id].evaluator
        r == Evaluate(st, ev.src, bad)
        s2 == [r.st EXCEPT !.funcs = Append(@, id)]
    IN  IF ~r.ok THEN Propagate(r, id)
        ELSE IF bad = id THEN Throw(s2, id)
        ELSE Returned(s2, id, App(ev.g, r.val))
\* lambda: _func(self())
MapEval(st, id, bad) ==
    LET ev == st.heap[id].evaluator
        r == Lazy_call(st, ev.src, bad)
        s2 == [r.st EXCEPT !.funcs = Append(@, id)]
    IN  IF ~r.ok THEN Propagate(r, id)
        ELSE IF bad = id THEN Throw(s2, id)
        ELSE Returned(s2, id, App(ev.g, r.val))

ZipEval_other_first(st, id, bad) ==
    LET ev == st.heap[id].evaluator
        rb == Lazy_call(st, ev.b, bad)
        ra == Lazy_call(rb.st, ev.a, bad)
    IN  IF ~rb.ok THEN Propagate(rb, id)
        ELSE IF ~ra.ok THEN Propagate(ra, id)
        ELSE Returned(ra.st, id, Pair(ra.val, rb.val))
ZipEval_rollback(st, id, bad) ==
    LET ev == st.heap[id].evaluator
        ra == Lazy_call(st, ev.a, bad)
        rb == Lazy_call(ra.st, ev.b, bad)
    IN  IF ~ra.ok THEN Propagate(ra, id)
        ELSE IF ~rb.ok THEN Propagate([rb EXCEPT !.st.heap = st.heap], id)
        ELSE Returned(rb.st, id, Pair(ra.val, rb.val))
\* lambda: (self(), _other())
ZipEval(st, id, bad) ==
    LET ev == st.heap[id].evaluator
        ra == Lazy_call(st, ev.a, bad)
        rb == Lazy_call(ra.st, ev.b, bad)
    IN  IF ~ra.ok THEN Propagate(ra, id)
        ELSE IF ~rb.ok THEN Propagate(rb, id)
        ELSE Returned(rb.st, id, Pair(ra.val, rb.val))

FlatEval_outer_only(st, id, bad) ==
    LET ev == st.heap[id].evaluator
        ro == Lazy_call(st, ev.outer, bad)
    IN  IF ~ro.ok THEN Propagate(ro, id)
        ELSE Returned(ro.st, id, ro.val)
\* lambda: self()()
FlatEval(st, id, bad) ==
    LET ev == st.heap[id].evaluator
        ro == Lazy_call(st, ev.outer, bad)
        ri == Lazy_call(ro.st, ro.val.id, bad)
    IN  IF ~ro.ok THEN Propagate(ro, id)
        ELSE IF ~ri.ok THEN Propagate(ri, id)
        ELSE Returned(ri.st, id, ri.val)

\* self._evaluator(): the evaluator of Lazy id is entered and run.
Evaluate(st, id, bad) ==
    LET k == st.heap[id].evaluator.k
        s1 == Entered(st, id)
    IN  CASE k = "fn" -> FnEval(s1, id, bad)
          [] k = "const" -> ConstEval(s1, id, bad)
          [] k = "map" -> MapEval(s1, id, bad)
          [] k = "zip" -> ZipEval(s1, id, bad)
          [] k = "flat" -> FlatEval(s1, id, bad)

\* Lazy.__call__ (and Lazy.unwrap, which calls it).
Lazy_call(st, id, bad) ==
    IF ~Maybe_bool(st.heap[id].result)
    THEN LET r == Evaluate(st, id, bad)
             s2 == Store(r.st, id, r.val)
         IN  IF r.ok
             THEN [st |-> s2, ok |-> TRUE, val |-> unwrap(s2.heap[id].result).val]
             ELSE r
    ELSE [st |-> st, ok |-> TRUE, val |-> unwrap(st.heap[id].result).val]

---------------------------------------------------------------------------
(* The operations of a single-threaded program.                            *)

NoThreads ==
    /\ pc = <<>>
    /\ tval = <<>>
    /\ overlap = FALSE

NoMaybeOp == mop = [op |-> "none"]

Frame == UNCHANGED <<pc, tval, overlap, mop>>

\* A new object on the heap; its identity is returned.
Alloc(op, lz) ==
    /\ Len(heap) < MaxLazy
    /\ heap' = Append(heap, lz)
    /\ evals' = Append(evals, 0)
    /\ last' = [op |-> op, id |-> Len(heap) + 1, ok |-> TRUE,
                val |-> Ref(Len(heap) + 1), trace |-> <<>>, funcs |-> <<>>, raised |-> 0]

\* Lazy(f), f a function returning v: an atom or an existing Lazy.
New(v) ==
    /\ Alloc("new", Lazy_init([k |-> "fn", ret |-> v]))
    /\ UNCHANGED flats
    /\ Frame

Wrap_unevaluated(v) ==
    /\ Alloc("wrap", Lazy_init([k |-> "const", ret |-> v]))
    /\ UNCHANGED flats
    /\ Frame
\* Lazy.wrap(value)
Wrap(v) ==
    /\ Alloc("wrap", [Lazy_init([k |-> "const", ret |-> v])
                        EXCEPT !.result = Some(v)])
    /\ UNCHANGED flats
    /\ Frame

\* Lazy.map(_func)
Map(src, g) ==
    /\ Alloc("map", Lazy_init([k |-> "map", src |-> src, g |-> g]))
    /\ UNCHANGED flats
    /\ Frame

\* Lazy.zip(_other)
Zip(a, b) ==
    /\ Alloc("zip", Lazy_init([k |-> "zip", a |-> a, b |-> b]))
    /\ UNCHANGED flats
    /\ Frame

\* The Lazies flatten() is typed for: those whose value is a Lazy.
Nested(id) ==
    /\ heap[id].evaluator.k \in {"fn", "const"}
    /\ heap[id].evaluator.ret.k = "lazy"

\* Lazy.flatten: self._result.unwrap_or(Lazy(lambda: self()())).  The argument
\* of unwrap_or is built before the call, so a Lazy is allocated in both
\* cases; when self is evaluated it is dropped and the inner Lazy returned.
Flatten(o) ==
    /\ Nested(o)
    /\ LET fresh == Len(heap) + 1
           got == unwrap_or(heap[o].result, Ref(fresh))
       IN  IF got = Ref(fresh)
           THEN /\ Alloc("flatten", Lazy_init([k |-> "flat", outer |-> o]))
                /\ flats' = flats \cup {<<o, fresh>>}
           ELSE /\ last' = [op |-> "flatten", id |-> got.id, ok |-> TRUE,
                            val |-> got, trace |-> <<>>, funcs |-> <<>>, raised |-> 0]
                /\ flats' = flats \cup {<<o, got.id>>}
                /\ UNCHANGED <<heap, evals>>
    /\ Frame

\* lz() or lz.unwrap(), with the attempt's failure point bad.  A failure
\* point the attempt never reaches is the same attempt as bad = 0.
Force(id, bad) ==
    /\ LET r == Lazy_call(State0, id, bad)
       IN  /\ bad = 0 \/ r.st.raised = bad
           /\ heap' = r.st.heap
           /\ evals' = r.st.evals
           /\ last' = [op |-> "force", id |-> id, ok |-> r.ok, val |-> r.val,
                       trace |-> r.st.trace, funcs |-> r.st.funcs,
                       raised |-> r.st.raised]
    /\ UNCHANGED flats
    /\ Frame

Init ==
    /\ heap = <<>>
    /\ evals = <<>>
    /\ flats = {}
    /\ last = [op |-> "init", id |-> 0, ok |-> TRUE, val |-> None,
               trace |-> <<>>, funcs |-> <<>>, raised |-> 0]
    /\ NoThreads
    /\ NoMaybeOp

Next ==
    \/ \E v \in Atoms \cup {Ref(i) : i \in Ids} : New(v)
    \/ \E v \in Atoms : Wrap(v)
    \/ \E src \in Ids, g \in Funcs : Map(src, g)
    \/ \E a \in Ids, b \in Ids : Zip(a, b)
    \/ \E o \in Ids : Flatten(o)
    \/ \E id \in Ids, bad \in {0} \cup Ids : Force(id, bad)

Spec == Init /\ [][Next]_vars

---------------------------------------------------------------------------
(* SpecInspect: programs that also inspect their Lazies with               *)
(* is_evaluated(), repr() and hash().  The functions given to Lazy(f) and  *)
(* the values given to Lazy.wrap return and are the falsy 0, the value a   *)
(* cache test by truth would take for an empty cache.                      *)

\* An operation on Lazy id that returns or raises; what it does to the
\* program state is st.
Inspect(op, id, r) ==
    /\ heap' = r.st.heap
    /\ evals' = r.st.evals
    /\ last' = [op |-> op, id |-> id, ok |-> r.ok, val |-> r.val,
                trace |-> r.st.trace, funcs |-> r.st.funcs,
                raised |-> r.st.raised]
    /\ UNCHANGED flats
    /\ Frame

StrV(parts) == [k |-> "str", parts |-> parts]

Lazy_is_evaluated_forcing(st, id) ==
    LET r == Lazy_call(st, id, 0) IN [st |-> r.st, ok |-> TRUE, val |-> BoolV(TRUE)]
\* Lazy.is_evaluated: self._result.is_some()
Lazy_is_evaluated(st, id) ==
    [st |-> st, ok |-> TRUE, val |-> BoolV(is_some(st.heap[id].result))]

\* Lazy.__repr__: f"Lazy({self._result.unwrap_or('?')})"
Lazy_repr(st, id) ==
    [st |-> st, ok |-> TRUE,
     val |-> StrV(<<"Lazy(", unwrap_or(st.heap[id].result, StrV(<<"?">>)), ")">>)]

Lazy_hash_of_value(st, id) ==
    LET r == Lazy_call(st, id, 0)
    IN  [st |-> r.st, ok |-> r.ok, val |-> IF r.ok THEN PyHash(r.val) ELSE r.val]
\* Lazy.__hash__: raise TypeError("Lazy objects cannot be hashed")
Lazy_hash(st, id) == [st |-> st, ok |-> FALSE, val |-> Exc("TypeError", "hash")]

\* lz.is_evaluated(), repr(lz), hash(lz)
IsEvaluated(id) == Inspect("is_evaluated", id, Lazy_is_evaluated(State0, id))
Repr(id) == Inspect("repr", id, Lazy_repr(State0, id))
Hash(id) == Inspect("hash", id, Lazy_hash(State0, id))

NextInspect ==
    \/ \E v \in {IntV(0)} \cup {Ref(i) : i \in Ids} : New(v)
    \/ Wrap(IntV(0))
    \/ \E src \in Ids, g \in Funcs : Map(src, g)
    \/ \E a \in Ids, b \in Ids : Zip(a, b)
    \/ \E o \in Ids : Flatten(o)
    \/ \E id \in Ids, bad \in {0} \cup Ids : Force(id, bad)
    \/ \E id \in Ids : IsEvaluated(id)
    \/ \E id \in Ids : Repr(id)
    \/ \E id \in Ids : Hash(id)

SpecInspect == Init /\ [][NextInspect]_vars

---------------------------------------------------------------------------
(* Helpers of the properties.                                              *)

Kind(id) == heap[id].evaluator.k
Evaluated(id) == is_evaluated(heap[id])
Value(id) == heap[id].result.value
InSeq(x, seq) == \E i \in 1..Len(seq) : seq[i] = x
Count(x, seq) == Cardinality({i \in 1..Len(seq) : seq[i] = x})
Before(x, y, seq) ==
    \E i \in 1..Len(seq), j \in 1..Len(seq) : i < j /\ seq[i] = x /\ seq[j] = y
\* How often the evaluator of an evaluated Lazy has returned: wrap() never
\* invokes its lambda.
Once(id) == IF Kind(id) = "const" THEN 0 ELSE 1

---------------------------------------------------------------------------
(* C1: Lazy memoization.  For a Lazy built from a function, the evaluator  *)
(* has returned exactly once if the Lazy is evaluated and never before;    *)
(* the first successful force invokes it and no later force does; the      *)
(* cache, once present, keeps its value and every force returns it;        *)
(* is_evaluated() is false on creation and true after a force.  The values *)
(* returned are None and 0, both falsy.                                    *)

C1_State ==
    /\ \A id \in Ids : Kind(id) = "fn" =>
          /\ evals[id] = (IF Evaluated(id) THEN 1 ELSE 0)
          /\ Evaluated(id) => Value(id) = heap[id].evaluator.ret
    /\ last.op = "new" => ~Evaluated(last.id)
    /\ (last.op = "force" /\ last.ok /\ Kind(last.id) = "fn") =>
          /\ Evaluated(last.id)
          /\ last.val = Value(last.id)
          /\ Count(last.id, last.trace) <= 1

C1_Step ==
    \A id \in Ids : Kind(id) = "fn" =>
       /\ Evaluated(id) =>
             /\ heap'[id] = heap[id]
             /\ evals'[id] = evals[id]
             /\ ~InSeq(id, last'.trace)
       /\ (~Evaluated(id) /\ last'.op = "force" /\ last'.id = id) =>
             last'.trace = <<id>>

\* C1: in every state and step, a Lazy built from a function has its
\* evaluator return once at the first successful force and never run again.
C1_Memoized == []C1_State /\ [][C1_Step]_vars

C1_Witness ==
    /\ last.op = "force" /\ last.ok /\ last.trace = <<>>
    /\ Kind(last.id) = "fn"
    /\ evals[last.id] = 1
    /\ last.val = None

---------------------------------------------------------------------------
(* C2: a force whose evaluator raises reports that very exception, leaves  *)
(* the cache empty, and the next force invokes the evaluator again.        *)

C2_State ==
    (last.op = "force" /\ ~last.ok /\ Kind(last.id) = "fn") =>
       /\ last.raised = last.id
       /\ last.val = Exc("Error", last.id)
       /\ ~Evaluated(last.id)
       /\ heap[last.id].result = NOTHING
       /\ evals[last.id] = 0

C2_Step ==
    \A id \in Ids :
       (Kind(id) = "fn" /\ last.op = "force" /\ last.id = id /\ ~last.ok
          /\ last'.op = "force" /\ last'.id = id) =>
             /\ last'.trace = <<id>>
             /\ last'.ok => (is_evaluated(heap'[id]) /\ evals'[id] = 1)

\* C2: a failed force propagates the exception, caches nothing, and the next
\* force runs the evaluator again.
C2_FailureNotCached == []C2_State /\ [][C2_Step]_vars

C2_Witness ==
    /\ last.op = "force" /\ ~last.ok
    /\ Kind(last.id) = "fn"
    /\ last.trace = <<last.id>>
    /\ ~Evaluated(last.id)

---------------------------------------------------------------------------
(* Helpers: what an operation that only builds a Lazy must leave alone.    *)

NothingInvoked ==
    /\ last'.trace = <<>>
    /\ last'.funcs = <<>>
    /\ \A id \in Ids : heap'[id] = heap[id] /\ evals'[id] = evals[id]

\* A step that is a force of Lazy id.
Forcing(id) == last'.op = "force" /\ last'.id = id

---------------------------------------------------------------------------
(* C3: Lazy.map is lazy.  Building v.map(g) invokes nothing and leaves v   *)
(* as it is; the mapped Lazy's evaluator returns once, invoking g once, at *)
(* the force that evaluates it and never afterwards; the source evaluator  *)
(* returns at most once however the source and the Lazies mapped from it   *)
(* are forced, and is never entered once the source is evaluated.          *)

C3_State ==
    /\ \A m \in Ids : Kind(m) = "map" =>
          LET src == heap[m].evaluator.src
          IN  /\ evals[m] = (IF Evaluated(m) THEN 1 ELSE 0)
              /\ evals[src] = (IF Evaluated(src) THEN Once(src) ELSE 0)
              /\ Evaluated(m) =>
                    /\ Evaluated(src)
                    /\ Value(m) = App(heap[m].evaluator.g, Value(src))
              /\ Count(m, last.funcs) <= 1
              /\ Count(src, last.trace) <= 1
    /\ last.op = "map" => ~Evaluated(last.id)

C3_Step ==
    /\ last'.op = "map" => NothingInvoked
    /\ \A m \in Ids : Kind(m) = "map" =>
          LET src == heap[m].evaluator.src
          IN  /\ Evaluated(m) =>
                    /\ heap'[m] = heap[m]
                    /\ ~InSeq(m, last'.funcs)
                    /\ ~InSeq(m, last'.trace)
              /\ (~Evaluated(m) /\ is_evaluated(heap'[m])) =>
                    /\ Count(m, last'.funcs) = 1
                    /\ ~Evaluated(src) => Count(src, last'.trace) = 1
              /\ Evaluated(src) =>
                    /\ heap'[src] = heap[src]
                    /\ ~InSeq(src, last'.trace)

\* C3: map builds lazily; f and g each return once over any forces of the
\* source and of the Lazies mapped from it.
C3_MapLazy == []C3_State /\ [][C3_Step]_vars

C3_Witness ==
    \E m1 \in Ids, m2 \in Ids :
       /\ m1 # m2
       /\ Kind(m1) = "map" /\ Kind(m2) = "map"
       /\ heap[m1].evaluator.src = heap[m2].evaluator.src
       /\ Kind(heap[m1].evaluator.src) = "fn"
       /\ Evaluated(m1) /\ Evaluated(m2)
       /\ evals[heap[m1].evaluator.src] = 1
       /\ last.op = "force" /\ last.id = m2 /\ last.trace = <<m2>>

---------------------------------------------------------------------------
(* C4: Lazy.zip.  Building a.zip(b) invokes nothing; a force of it enters  *)
(* a's evaluator before b's, returns the pair of their values, and enters  *)
(* the evaluator of no operand that was already evaluated.                 *)

C4_State ==
    \A z \in Ids : Kind(z) = "zip" =>
       LET a == heap[z].evaluator.a
           b == heap[z].evaluator.b
       IN  /\ evals[z] = (IF Evaluated(z) THEN 1 ELSE 0)
           /\ Evaluated(z) =>
                 /\ Evaluated(a) /\ Evaluated(b)
                 /\ Value(z) = Pair(Value(a), Value(b))
           /\ (last.op = "force" /\ last.id = z /\ last.ok) =>
                 last.val = Pair(Value(a), Value(b))
           /\ (last.op = "zip" /\ last.id = z) => ~Evaluated(z)

C4_Step ==
    /\ last'.op = "zip" => NothingInvoked
    /\ \A z \in Ids : Kind(z) = "zip" =>
          LET a == heap[z].evaluator.a
              b == heap[z].evaluator.b
          IN  /\ (Forcing(z) /\ ~Evaluated(z) /\ ~Evaluated(a) /\ ~Evaluated(b)) =>
                    /\ InSeq(a, last'.trace)
                    /\ last'.ok => InSeq(b, last'.trace)
                    /\ (a # b /\ InSeq(b, last'.trace)) => Before(a, b, last'.trace)
              /\ Evaluated(a) => ~InSeq(a, last'.trace)
              /\ Evaluated(b) => ~InSeq(b, last'.trace)

\* C4: zip builds lazily; a force enters a before b, returns the pair, and
\* skips operands already evaluated.
C4_ZipOrder == []C4_State /\ [][C4_Step]_vars

C4_Witness ==
    /\ last.op = "force" /\ last.ok /\ Kind(last.id) = "zip"
    /\ LET a == heap[last.id].evaluator.a
           b == heap[last.id].evaluator.b
       IN  /\ a # b
           /\ last.trace = <<last.id, a, b>>
           /\ last.val = Pair(Value(a), Value(b))
           /\ Value(a) # Value(b)

---------------------------------------------------------------------------
(* C5: Lazy.flatten.  flatten() invokes nothing.  For every flatten() call *)
(* on outer giving c, with inner the Lazy the outer evaluates to: each of  *)
(* the three evaluators returns at most once; once c is evaluated, so are  *)
(* outer and inner, each evaluator has returned exactly once, and c's      *)
(* value is inner's; a force of c enters outer's evaluator before inner's, *)
(* and enters neither when it is already evaluated.                        *)

Inner(o) == heap[o].evaluator.ret.id

C5_State ==
    \A f \in flats :
       LET o == f[1]
           c == f[2]
           i == Inner(o)
       IN  /\ \A x \in {o, c, i} :
                 evals[x] = (IF Evaluated(x) THEN Once(x) ELSE 0)
           /\ Evaluated(c) =>
                 /\ Evaluated(o) /\ Evaluated(i)
                 /\ Value(o) = Ref(i)
                 /\ Value(c) = Value(i)
           /\ (last.op = "force" /\ last.id = c /\ last.ok) =>
                 /\ Evaluated(c)
                 /\ last.val = Value(i)

C5_Step ==
    /\ last'.op = "flatten" => NothingInvoked
    /\ \A f \in flats :
          LET o == f[1]
              c == f[2]
              i == Inner(o)
          IN  /\ (Forcing(c) /\ last'.ok) =>
                    /\ ~Evaluated(o) => Count(o, last'.trace) = 1
                    /\ ~Evaluated(i) => Count(i, last'.trace) = 1
              /\ (Forcing(c) /\ InSeq(i, last'.trace)) =>
                    \/ Evaluated(o)
                    \/ Before(o, i, last'.trace)
              /\ \A x \in {o, c, i} : Evaluated(x) =>
                    /\ heap'[x] = heap[x]
                    /\ ~InSeq(x, last'.trace)

\* C5: flatten builds lazily; forcing the result evaluates outer then inner,
\* each evaluator returning once in total, and gives the inner's value.
C5_Flatten == []C5_State /\ [][C5_Step]_vars

C5_Witness ==
    \E f \in flats :
       /\ Kind(f[2]) = "flat"
       /\ last.op = "force" /\ last.id = f[2] /\ last.ok
       /\ last.trace = <<f[2], f[1], Inner(f[1])>>
       /\ Evaluated(f[1]) /\ Evaluated(f[2]) /\ Evaluated(Inner(f[1]))
       /\ last.val = Value(Inner(f[1]))

\* The other case of flatten(): the outer was forced first, and flatten()
\* returned the inner Lazy itself.
C5_WitnessPreForced ==
    \E f \in flats :
       /\ f[2] = Inner(f[1])
       /\ last.op = "force" /\ last.id = f[2] /\ last.ok
       /\ last.trace = <<f[2]>>
       /\ evals[f[1]] = 1 /\ evals[f[2]] = 1

---------------------------------------------------------------------------
(* C6: a Lazy built by map or zip whose force fails reports the exception  *)
(* that was raised, stays unevaluated, and can be forced again: the retry  *)
(* enters its evaluator again and can succeed, evaluating it.              *)

Derived(id) == Kind(id) \in {"map", "zip"}

\* What a force of id gives from the current state when no function raises.
RetrySucceeds(id) ==
    LET r == Lazy_call(State0, id, 0)
    IN  /\ r.ok
        /\ r.st.trace[1] = id
        /\ is_evaluated(r.st.heap[id])
        /\ r.st.evals[id] = 1

C6_State ==
    (last.op = "force" /\ ~last.ok /\ Derived(last.id)) =>
       /\ last.raised \in Ids
       /\ last.val = Exc("Error", last.raised)
       /\ last.trace[1] = last.id
       /\ ~Evaluated(last.id)
       /\ ~Evaluated(last.raised)
       /\ evals[last.id] = 0
       /\ RetrySucceeds(last.id)

C6_Step ==
    \A id \in Ids :
       (Derived(id) /\ last.op = "force" /\ last.id = id /\ ~last.ok /\ Forcing(id)) =>
          /\ last'.trace[1] = id
          /\ last'.ok => is_evaluated(heap'[id])

\* C6: a failed force of a Lazy built by map or zip is not cached and a retry
\* runs its computation again and can succeed.
C6_DerivedRetry == []C6_State /\ [][C6_Step]_vars

C6_Witness ==
    /\ last.op = "force" /\ ~last.ok
    /\ Kind(last.id) = "zip"
    /\ last.raised = heap[last.id].evaluator.b
    /\ last.raised # heap[last.id].evaluator.a
    /\ ~Evaluated(last.id)

---------------------------------------------------------------------------
(* SpecThreads: NThreads threads force one Lazy(f), f returning an atom.   *)
(* Each action is one step of Lazy.__call__ between which the interpreter  *)
(* may switch threads: the test of line 727, the call of the evaluator and *)
(* the assignment of line 728, the return of line 729.                     *)

Threads == 1..NThreads

InitThreads ==
    /\ \E v \in Atoms : heap = <<Lazy_init([k |-> "fn", ret |-> v])>>
    /\ evals = <<0>>
    /\ flats = {}
    /\ last = [op |-> "init", id |-> 0, ok |-> TRUE, val |-> None,
               trace |-> <<>>, funcs |-> <<>>, raised |-> 0]
    /\ pc = [t \in Threads |-> "idle"]
    /\ tval = [t \in Threads |-> [v |-> None, forces |-> 0]]
    /\ overlap = FALSE
    /\ NoMaybeOp

\* A thread calls lz().
TCall(t) ==
    /\ pc[t] = "idle"
    /\ tval[t].forces < MaxForces
    /\ pc' = [pc EXCEPT ![t] = "test"]
    /\ tval' = [tval EXCEPT ![t].forces = @ + 1]
    /\ overlap' = (overlap \/ \E u \in Threads : u # t /\ pc[u] # "idle")
    /\ UNCHANGED <<heap, evals, flats, last, mop>>

\* if not self._result:
TTest(t) ==
    /\ pc[t] = "test"
    /\ pc' = [pc EXCEPT ![t] =
                 IF ~Maybe_bool(heap[1].result) THEN "eval" ELSE "return"]
    /\ UNCHANGED <<heap, evals, flats, last, tval, overlap, mop>>

\* self._evaluator() runs and returns; its value is on the thread's stack.
TEvaluate(t) ==
    /\ pc[t] = "eval"
    /\ LET r == Evaluate(State0, 1, 0)
       IN  /\ evals' = r.st.evals
           /\ tval' = [tval EXCEPT ![t].v = r.val]
    /\ pc' = [pc EXCEPT ![t] = "store"]
    /\ UNCHANGED <<heap, flats, last, overlap, mop>>

\* self._result = Some(...)
TStore(t) ==
    /\ pc[t] = "store"
    /\ heap' = Store(State0, 1, tval[t].v).heap
    /\ pc' = [pc EXCEPT ![t] = "return"]
    /\ UNCHANGED <<evals, flats, last, tval, overlap, mop>>

\* return self._result.unwrap()
TReturn(t) ==
    /\ pc[t] = "return"
    /\ LET r == unwrap(heap[1].result)
       IN  last' = [op |-> "force", id |-> 1, ok |-> r.ok, val |-> r.val,
                    trace |-> <<>>, funcs |-> <<>>, raised |-> 0]
    /\ pc' = [pc EXCEPT ![t] = "idle"]
    /\ tval' = [tval EXCEPT ![t].v = None]
    /\ UNCHANGED <<heap, evals, flats, overlap, mop>>

NextThreads ==
    \E t \in Threads :
       \/ TCall(t)
       \/ TTest(t)
       \/ TEvaluate(t)
       \/ TStore(t)
       \/ TReturn(t)

SpecThreads == InitThreads /\ [][NextThreads]_vars

---------------------------------------------------------------------------
(* C7: forcing is not safe under concurrency.  While the forces of the     *)
(* threads do not overlap, the evaluator returns at most once; when they   *)
(* overlap, every thread that tested the cache before the first store      *)
(* invokes the evaluator, so it can run more than once (the witness), at   *)
(* most once per thread; every force still returns the evaluator's value.  *)

C7_SerialAtMostOnce ==
    /\ ~overlap => evals[1] <= 1
    /\ evals[1] <= NThreads
    /\ last.op = "force" =>
          /\ last.ok
          /\ last.val = heap[1].evaluator.ret

\* Two threads have both seen the empty cache and both have run the
\* evaluator before either stored a result.
C7_Race ==
    \E t \in Threads, u \in Threads :
       /\ t # u
       /\ pc[t] = "store" /\ pc[u] = "store"
       /\ heap[1].result = NOTHING
       /\ evals[1] = 2

\* The guarantee of single-threaded use, which SpecThreads does not keep.
C7_AtMostOnce == evals[1] <= 1

---------------------------------------------------------------------------
(* SpecMaybe: the Maybe operations as pure functions.  A step applies one  *)
(* operation to inputs drawn from the sets below; mop is the operation,    *)
(* its inputs and its outcome.                                             *)

Maybes == {NOTHING} \cup {Some(v) : v \in Values}
Indices == {IntV(n) : n \in (0 - MaxIdx)..MaxIdx}
SliceArgs == {None} \cup Indices
Slices == {Slice(a, b, c) : a \in SliceArgs, b \in SliceArgs, c \in SliceArgs}

InitMaybe ==
    /\ mop = [op |-> "none"]
    /\ heap = <<>>
    /\ evals = <<>>
    /\ flats = {}
    /\ last = [op |-> "init", id |-> 0, ok |-> TRUE, val |-> None,
               trace |-> <<>>, funcs |-> <<>>, raised |-> 0]
    /\ NoThreads

\* One operation is applied to the inputs chosen; the operations are pure, so
\* a behaviour is one application.
Applied(op, self, arg, out) ==
    /\ mop.op = "none"
    /\ mop' = [op |-> op, self |-> self, arg |-> arg, out |-> out]
    /\ UNCHANGED <<heap, evals, flats, last, pc, tval, overlap>>

\* Maybe.from_optional(m.as_optional())
RoundTrip(m) == Applied("roundtrip", m, None, Ret(from_optional(as_optional(m))))

\* m[i], i an int
GetItemInt(m, i) == Applied("getitem", m, i, Maybe_getitem(m, i))

\* m[start:stop:step]
GetItemSlice(m, sl) == Applied("getslice", m, sl, Maybe_getitem(m, sl))

\* Maybes of Maybes, for flatten, and_, or_ and ==.
Maybes1 == Maybes \cup {Some(m) : m \in Maybes}
Maybes2 == {NOTHING} \cup {Some(m) : m \in Maybes1}
\* The callbacks of map and filter (filter tests the result for truth), the
\* callbacks of flatmap, and the messages of expect.
Callbacks == [Values -> Values]
MaybeCallbacks == [Values -> Maybes]
Msgs == {"", "msg"}

\* Maybe.from_optional(v)
FromOptional(v) == Applied("from_optional", None, v, Ret(from_optional(v)))

\* m.as_optional()
AsOptional(m) == Applied("as_optional", m, None, Ret(as_optional(m)))

\* m.is_some(), m.is_nothing()
IsSome(m) == Applied("is_some", m, None, Ret(BoolV(is_some(m))))
IsNothing(m) == Applied("is_nothing", m, None, Ret(BoolV(is_nothing(m))))

\* m.unwrap(), m.unwrap_or(d), m.expect(msg)
Unwrap(m) == Applied("unwrap", m, None, unwrap(m))
UnwrapOr(m, d) == Applied("unwrap_or", m, d, Ret(unwrap_or(m, d)))
Expect(m, msg) == Applied("expect", m, msg, expect(m, msg))

\* m.map(f), m.filter(f), m.flatmap(f)
MaybeMap(m, f) == Applied("map", m, f, Maybe_map(m, f))
MaybeFilter(m, f) == Applied("filter", m, f, Maybe_filter(m, f))
MaybeFlatmap(m, f) == Applied("flatmap", m, f, Maybe_flatmap(m, f))

\* m.zip(o), m.and_(o), m.or_(o), m.setdefault(v)
MaybeZip(m, o) == Applied("zip", m, o, Maybe_zip(m, o))
MaybeAnd(m, o) == Applied("and_", m, o, Ret(Maybe_and(m, o)))
MaybeOr(m, o) == Applied("or_", m, o, Ret(Maybe_or(m, o)))
SetDefault(m, v) == Applied("setdefault", m, v, Ret(Maybe_setdefault(m, v)))

\* m.flatten()
MaybeFlatten(m) == Applied("flatten", m, None, Ret(Maybe_flatten(m)))

\* list(m), len(m), v in m
Iterate(m) == Applied("iter", m, None, Ret(ListV(Maybe_iter(m))))
Length(m) == Applied("len", m, None, Ret(IntV(Maybe_len(m))))
Contains(m, v) == Applied("contains", m, v, Ret(BoolV(Maybe_contains(m, v))))

\* m.index(x), m.count(x), list(reversed(m))
SeqIndex(m, x) == Applied("index", m, x, Sequence_index(m, x))
SeqCount(m, x) == Applied("count", m, x, Ret(IntV(Sequence_count(m, x))))
SeqReversed(m) == Applied("reversed", m, None, Sequence_reversed(m))

\* list(m); list(m); len(m)
IterateTwice(m) == Applied("iter_twice", m, None, Maybe_iter_twice(m))

\* a == b, with hash(a) and hash(b)
Equals(a, b) ==
    Applied("eq", a, b,
            [ok |-> TRUE, val |-> BoolV(Maybe_eq(a, b)),
             hself |-> Maybe_hash(a), harg |-> Maybe_hash(b)])

NextMaybe ==
    \/ \E m \in Maybes : RoundTrip(m)
    \/ \E m \in Maybes, i \in Indices : GetItemInt(m, i)
    \/ \E m \in Maybes, sl \in Slices : GetItemSlice(m, sl)
    \/ \E v \in Values : FromOptional(v)
    \/ \E m \in Maybes : AsOptional(m)
    \/ \E m \in Maybes : IsSome(m)
    \/ \E m \in Maybes : IsNothing(m)
    \/ \E m \in Maybes : Unwrap(m)
    \/ \E m \in Maybes, d \in Values : UnwrapOr(m, d)
    \/ \E m \in Maybes, msg \in Msgs : Expect(m, msg)
    \/ \E m \in Maybes, f \in Callbacks : MaybeMap(m, f)
    \/ \E m \in Maybes, f \in Callbacks : MaybeFilter(m, f)
    \/ \E m \in Maybes, f \in MaybeCallbacks : MaybeFlatmap(m, f)
    \/ \E m \in Maybes, o \in Maybes : MaybeZip(m, o)
    \/ \E m \in Maybes, o \in Maybes1 : MaybeAnd(m, o)
    \/ \E m \in Maybes, o \in Maybes1 : MaybeOr(m, o)
    \/ \E m \in Maybes, v \in Values : SetDefault(m, v)
    \/ \E m \in Maybes2 : MaybeFlatten(m)
    \/ \E m \in Maybes : Iterate(m)
    \/ \E m \in Maybes, v \in Values : Contains(m, v)
    \/ \E m \in Maybes : Length(m)
    \/ \E a \in Maybes1, b \in Maybes1 : Equals(a, b)
    \/ \E m \in Maybes : IterateTwice(m)
    \/ \E m \in Maybes, x \in Values : SeqIndex(m, x)
    \/ \E m \in Maybes, x \in Values : SeqCount(m, x)
    \/ \E m \in Maybes : SeqReversed(m)

SpecMaybe == InitMaybe /\ [][NextMaybe]_vars

---------------------------------------------------------------------------
(* C8: the nullable round trip.  As claimed, from_optional(as_optional(m)) *)
(* = m for every m, Some(None) included.                                   *)

C8_RoundTripAll == mop.op = "roundtrip" => mop.out = Ret(mop.self)

(* C8 as amended: the round trip gives m back for Nothing and for every    *)
(* Some(v) with v not None; Some(None) comes back as Nothing.              *)
C8_RoundTrip ==
    mop.op = "roundtrip" =>
       mop.out = Ret(IF mop.self = Some(None) THEN NOTHING ELSE mop.self)

C8_Witness ==
    /\ mop.op = "roundtrip"
    /\ mop.self = Some(IntV(0))
    /\ mop.out = Ret(Some(IntV(0)))

---------------------------------------------------------------------------
(* List slicing, the reference for C9: seq[start:stop:step] of a Python    *)
(* list takes the items at start, start + step, ... short of stop, with    *)
(* the indices adjusted as slice.indices does.                             *)

ListSliceLen(sl, length) ==
    LET ix == SliceIndices(sl, length)
        start == ix[1]
        stop == ix[2]
        step == ix[3]
    IN  IF step < 0
        THEN (IF stop < start THEN (start - stop - 1) \div (0 - step) + 1 ELSE 0)
        ELSE (IF start < stop THEN (stop - start - 1) \div step + 1 ELSE 0)

ListSlice(seq, sl) ==
    LET ix == SliceIndices(sl, Len(seq))
    IN  [j \in 1..ListSliceLen(sl, Len(seq)) |-> seq[ix[1] + (j - 1) * ix[3] + 1]]

(* C9: slice access follows list slicing.  For every slice a list accepts  *)
(* (step not 0), Some(v)[s] is Some(v) exactly when [v][s] is [v], and     *)
(* Nothing otherwise; Nothing()[s] is Nothing.                             *)
C9_SliceAsList ==
    (mop.op = "getslice" /\ mop.arg.step # IntV(0)) =>
       IF mop.self = NOTHING
       THEN mop.out = Ret(NOTHING)
       ELSE mop.out = Ret(IF ListSlice(<<mop.self.value>>, mop.arg) = <<mop.self.value>>
                          THEN mop.self ELSE NOTHING)

\* The slices on which Some.__getitem__ and list slicing agree: the code is
\* right whenever the step is positive.
C9_PositiveSteps ==
    (mop.op = "getslice" /\ mop.arg.step # IntV(0)
       /\ (mop.arg.step = None \/ mop.arg.step.n > 0)) =>
       IF mop.self = NOTHING
       THEN mop.out = Ret(NOTHING)
       ELSE mop.out = Ret(IF ListSlice(<<mop.self.value>>, mop.arg) = <<mop.self.value>>
                          THEN mop.self ELSE NOTHING)

---------------------------------------------------------------------------
(* C10: integer indexing.  Some(v)[0] returns v; Some(v)[i] raises         *)
(* IndexError for every other integer i, negative ones included;           *)
(* Nothing()[i] raises IndexError for every integer i.                     *)

C10_IntIndex ==
    mop.op = "getitem" =>
       IF is_some(mop.self) /\ mop.arg = IntV(0)
       THEN mop.out = Ret(mop.self.value)
       ELSE /\ ~mop.out.ok
            /\ mop.out.val.type = "IndexError"

C10_Witness ==
    /\ mop.op = "getitem"
    /\ mop.self = Some(None)
    /\ mop.arg = IntV(-1)
    /\ ~mop.out.ok
    /\ mop.out.val.type = "IndexError"

---------------------------------------------------------------------------
(* C11: totality.  As claimed: apart from unwrap() and expect() on Nothing *)
(* and an integer index out of range, every Maybe operation returns        *)
(* normally on both variants, slice access with any step included.         *)

\* The three operations the claim lets fail.
MayFail ==
    \/ mop.op \in {"unwrap", "expect"} /\ is_nothing(mop.self)
    \/ mop.op = "getitem" /\ ~(is_some(mop.self) /\ mop.arg = IntV(0))

\* m[a:b:0] on a Some: slice.indices raises ValueError, as a list does.
ZeroStepOnSome ==
    mop.op = "getslice" /\ is_some(mop.self) /\ mop.arg.step = IntV(0)

\* The operations the claim lists as total, and the three others where the
\* claim lets them return.  (index, inherited from Sequence, is not among
\* them: it raises ValueError when the value is not found.)
ListedOps ==
    {"unwrap_or", "is_some", "is_nothing", "map", "filter", "flatmap", "zip",
     "as_optional", "from_optional", "roundtrip", "setdefault", "and_", "or_",
     "flatten", "iter", "iter_twice", "contains", "len", "eq", "getslice"}

Covered ==
    \/ mop.op \in ListedOps
    \/ mop.op \in {"unwrap", "expect", "getitem"} /\ ~MayFail

---------------------------------------------------------------------------
(* C12: two Maybes are equal iff both are Nothing or both are Some with    *)
(* equal values; equal Maybes have equal hashes; every Nothing an          *)
(* operation returns equals Nothing().                                     *)

C12_EqualityAndHash ==
    /\ mop.op = "eq" =>
          /\ mop.out.val =
                BoolV(IF is_some(mop.self) /\ is_some(mop.arg)
                      THEN mop.self.value = mop.arg.value
                      ELSE is_nothing(mop.self) /\ is_nothing(mop.arg))
          /\ mop.out.val.b => mop.out.hself = mop.out.harg
    /\ (mop.op # "none" /\ mop.out.ok /\ IsMaybe(mop.out.val)
          /\ is_nothing(mop.out.val)) => Maybe_eq(mop.out.val, Nothing)

C12_Witness ==
    /\ mop.op = "eq"
    /\ mop.self = Some(Some(IntV(0)))
    /\ mop.arg = Some(Some(IntV(0)))
    /\ mop.out.val = BoolV(TRUE)
    /\ mop.out.hself = mop.out.harg

---------------------------------------------------------------------------
(* C13: from_optional(v) is Nothing iff v is None and Some(v) otherwise,   *)
(* 0 included; Some(None) is present and unwraps to None.                  *)

C13_Construction ==
    /\ mop.op = "from_optional" =>
          /\ mop.out = Ret(IF mop.arg = None THEN NOTHING ELSE Some(mop.arg))
          /\ is_some(mop.out.val) <=> mop.arg # None
    /\ (mop.op = "is_some" /\ mop.self = Some(None)) => mop.out = Ret(BoolV(TRUE))
    /\ (mop.op = "is_nothing" /\ mop.self = Some(None)) => mop.out = Ret(BoolV(FALSE))
    /\ (mop.op = "unwrap" /\ mop.self = Some(None)) => mop.out = Ret(None)

C13_Witness ==
    /\ mop.op = "from_optional"
    /\ mop.arg = IntV(0)
    /\ mop.out = Ret(Some(IntV(0)))

---------------------------------------------------------------------------
(* C14: unwrap, expect and unwrap_or of Some(v) return v; unwrap_or(d) of  *)
(* Nothing returns d; unwrap of Nothing raises TypeError; expect(msg) of   *)
(* Nothing raises AssertionError carrying msg.                             *)

C14_Extraction ==
    /\ (mop.op \in {"unwrap", "expect", "unwrap_or"} /\ is_some(mop.self)) =>
          mop.out = Ret(mop.self.value)
    /\ (mop.op = "unwrap_or" /\ is_nothing(mop.self)) => mop.out = Ret(mop.arg)
    /\ (mop.op = "unwrap" /\ is_nothing(mop.self)) =>
          /\ ~mop.out.ok
          /\ mop.out.val.type = "TypeError"
    /\ (mop.op = "expect" /\ is_nothing(mop.self)) =>
          /\ ~mop.out.ok
          /\ mop.out.val.type = "AssertionError"
          /\ mop.out.val.by = mop.arg

C14_Witness ==
    /\ mop.op = "unwrap_or"
    /\ mop.self = Some(None)
    /\ mop.arg = IntV(1)
    /\ mop.out = Ret(None)

---------------------------------------------------------------------------
(* C15: Some(v).map(f) is Some(f(v)), f invoked once, its result wrapped   *)
(* also when it is None; Nothing().map(f) is Nothing, f not invoked;       *)
(* Some(v).map(identity) is Some(v).                                       *)

C15_Map ==
    mop.op = "map" =>
       /\ mop.out.ok
       /\ is_some(mop.self) =>
             /\ mop.out.calls = <<mop.self.value>>
             /\ is_some(mop.out.val)
             /\ mop.out.val.value = mop.arg[mop.self.value]
             /\ mop.arg = [v \in Values |-> v] => mop.out.val = mop.self
       /\ is_nothing(mop.self) =>
             /\ mop.out.calls = <<>>
             /\ mop.out.val = Nothing

C15_Witness ==
    /\ mop.op = "map"
    /\ mop.self = Some(IntV(0))
    /\ mop.arg[IntV(0)] = None
    /\ mop.out.val = Some(None)
    /\ mop.out.calls = <<IntV(0)>>

---------------------------------------------------------------------------
(* C16: Some(v).flatmap(f) is f(v), Nothing().flatmap(f) is Nothing with f *)
(* not invoked; m.flatmap(f) equals m.map(f).flatten(), and equals what    *)
(* the composed implementation flatten(map(f)) of canned gives.            *)

C16_Flatmap ==
    mop.op = "flatmap" =>
       /\ mop.out.ok
       /\ is_some(mop.self) =>
             /\ mop.out.val = mop.arg[mop.self.value]
             /\ mop.out.calls = <<mop.self.value>>
       /\ is_nothing(mop.self) =>
             /\ mop.out.val = Nothing
             /\ mop.out.calls = <<>>
       /\ Maybe_eq(mop.out.val, Maybe_flatten(Maybe_map(mop.self, mop.arg).val))
       /\ Maybe_eq(mop.out.val, canned_flatmap(mop.self, mop.arg).val)
       /\ mop.out.calls = canned_flatmap(mop.self, mop.arg).calls

C16_Witness ==
    /\ mop.op = "flatmap"
    /\ mop.self = Some(IntV(0))
    /\ mop.arg[IntV(0)] = Some(None)
    /\ mop.out.val = Some(None)
    /\ canned_flatmap(mop.self, mop.arg).val = Some(None)

---------------------------------------------------------------------------
(* C17: Some(v).filter(p) is Some(v) when p(v) holds and Nothing when it   *)
(* does not; Nothing().filter(p) is Nothing, p not invoked; the result     *)
(* never holds a value other than v.                                       *)

C17_Filter ==
    mop.op = "filter" =>
       /\ mop.out.ok
       /\ is_some(mop.self) =>
             /\ mop.out.calls = <<mop.self.value>>
             /\ mop.out.val = (IF Truthy(mop.arg[mop.self.value])
                               THEN mop.self ELSE Nothing)
       /\ is_nothing(mop.self) =>
             /\ mop.out.calls = <<>>
             /\ mop.out.val = Nothing
       /\ is_some(mop.out.val) => mop.out.val.value = mop.self.value

C17_Witness ==
    /\ mop.op = "filter"
    /\ mop.self = Some(IntV(0))
    /\ mop.arg[IntV(0)] = IntV(1)
    /\ mop.out.val = Some(IntV(0))

---------------------------------------------------------------------------
(* C18: Some(a).zip(Some(b)) is Some((a, b)); with a Nothing on either     *)
(* side the result is Nothing; the result is present iff both are.         *)

C18_Zip ==
    mop.op = "zip" =>
       /\ mop.out.ok
       /\ (is_some(mop.self) /\ is_some(mop.arg)) =>
             mop.out.val = Some(Pair(mop.self.value, mop.arg.value))
       /\ (is_nothing(mop.self) \/ is_nothing(mop.arg)) => mop.out.val = Nothing
       /\ is_some(mop.out.val) <=> (is_some(mop.self) /\ is_some(mop.arg))

C18_Witness ==
    /\ mop.op = "zip"
    /\ mop.self = Some(None)
    /\ mop.arg = Some(IntV(0))
    /\ mop.out = Ret(Some(Pair(None, IntV(0))))

---------------------------------------------------------------------------
(* C19: Some(a).and_(o) is o for every o, Nothing included;                *)
(* Nothing().and_(o) is Nothing; Some(a).or_(o) is Some(a);                *)
(* Nothing().or_(o) is o.  The operators & and | are the same methods.     *)

C19_AndOr ==
    /\ mop.op = "and_" =>
          mop.out = Ret(IF is_some(mop.self) THEN mop.arg ELSE Nothing)
    /\ mop.op = "or_" =>
          mop.out = Ret(IF is_some(mop.self) THEN mop.self ELSE mop.arg)

C19_Witness ==
    /\ mop.op = "and_"
    /\ mop.self = Some(IntV(0))
    /\ mop.arg = Nothing
    /\ mop.out = Ret(Nothing)

---------------------------------------------------------------------------
(* C20: flattening Some(m) gives the inner Maybe m itself, flattening      *)
(* Nothing gives Nothing; exactly one level of nesting is removed.         *)

C20_Flatten ==
    mop.op = "flatten" =>
       mop.out = Ret(IF is_some(mop.self) THEN mop.self.value ELSE Nothing)

C20_Witness ==
    /\ mop.op = "flatten"
    /\ mop.self = Some(Some(Some(None)))
    /\ mop.out = Ret(Some(Some(None)))

---------------------------------------------------------------------------
(* C21: iterating Some(v) yields v and nothing else, iterating Nothing     *)
(* yields nothing, and a second iteration yields the same; len is 1 for    *)
(* Some and 0 for Nothing, the number of items yielded; x in m is true iff *)
(* m is Some(v) with v == x.                                               *)

C21_SequenceView ==
    /\ mop.op \in {"iter", "iter_twice"} =>
          mop.out.val = ListV(IF is_some(mop.self) THEN <<mop.self.value>> ELSE <<>>)
    /\ mop.op = "iter_twice" =>
          /\ mop.out.again = mop.out.val
          /\ mop.out.len = IntV(Len(mop.out.val.items))
    /\ mop.op = "len" =>
          mop.out = Ret(IntV(IF is_some(mop.self) THEN 1 ELSE 0))
    /\ mop.op = "contains" =>
          mop.out = Ret(BoolV(is_some(mop.self) /\ mop.self.value = mop.arg))

C21_Witness ==
    /\ mop.op = "iter_twice"
    /\ mop.self = Some(None)
    /\ mop.out.val = ListV(<<None>>)
    /\ mop.out.again = ListV(<<None>>)
    /\ mop.out.len = IntV(1)

---------------------------------------------------------------------------
(* The Lazies a Lazy is derived from: the source of a map, the operands of *)
(* a zip, the outer and the inner of a flatten, and what those are derived *)
(* from.  A Lazy is built from Lazies that exist, so the ids decrease.     *)

Deps(d) ==
    LET ev == heap[d].evaluator
    IN  CASE ev.k = "map" -> {ev.src}
          [] ev.k = "zip" -> {ev.a, ev.b}
          [] ev.k = "flat" -> {ev.outer, Inner(ev.outer)}
          [] OTHER -> {}

RECURSIVE DerivedFrom(_, _)
DerivedFrom(d, id) == \E x \in Deps(d) : x = id \/ DerivedFrom(x, id)

---------------------------------------------------------------------------
(* C22: Lazy.wrap(value) is evaluated from its creation: is_evaluated() is *)
(* true before any force, every force returns value, and the lambda kept   *)
(* as its evaluator is never invoked.  Checked under SpecInspect.          *)

C22_State ==
    /\ \A id \in Ids : Kind(id) = "const" =>
          /\ Evaluated(id)
          /\ Value(id) = heap[id].evaluator.ret
          /\ evals[id] = 0
    /\ (last.op = "is_evaluated" /\ Kind(last.id) = "const") =>
          last.val = BoolV(TRUE)
    /\ (last.op = "force" /\ Kind(last.id) = "const") =>
          /\ last.ok
          /\ last.val = heap[last.id].evaluator.ret
          /\ last.trace = <<>>

C22_Step ==
    \A id \in Ids : Kind(id) = "const" =>
       /\ ~InSeq(id, last'.trace)
       /\ heap'[id] = heap[id]

\* C22: a Lazy made by wrap is evaluated from the start, forces return the
\* wrapped value and its evaluator is never entered.
C22_Wrap == []C22_State /\ [][C22_Step]_vars

C22_Witness ==
    /\ last.op = "force" /\ last.ok
    /\ Kind(last.id) = "const"
    /\ last.val = IntV(0)
    /\ last.trace = <<>>
    /\ evals[last.id] = 0

\* A wrapped Lazy forced through a Lazy mapped from it.
C22_WitnessMapped ==
    /\ last.op = "force" /\ last.ok
    /\ Kind(last.id) = "map"
    /\ Kind(heap[last.id].evaluator.src) = "const"
    /\ last.trace = <<last.id>>
    /\ evals[heap[last.id].evaluator.src] = 0

---------------------------------------------------------------------------
(* C23: hash(lz) raises TypeError for every Lazy, unevaluated, evaluated   *)
(* or made by wrap, and neither forces it nor changes any cache.           *)

C23_State ==
    last.op = "hash" =>
       /\ ~last.ok
       /\ last.val.type = "TypeError"
       /\ last.trace = <<>>

C23_Step == last'.op = "hash" => (heap' = heap /\ evals' = evals)

\* C23: hashing a Lazy always raises TypeError and changes nothing.
C23_HashRejected == []C23_State /\ [][C23_Step]_vars

C23_Witness ==
    /\ last.op = "hash" /\ ~last.ok
    /\ Kind(last.id) = "fn"
    /\ ~Evaluated(last.id)

C23_WitnessEvaluated ==
    /\ last.op = "hash" /\ ~last.ok
    /\ Kind(last.id) = "fn"
    /\ Evaluated(last.id)

C23_WitnessWrapped ==
    /\ last.op = "hash" /\ ~last.ok
    /\ Kind(last.id) = "const"

---------------------------------------------------------------------------
(* C24: only forcing changes a Lazy.  is_evaluated, repr, map, zip,        *)
(* flatten and wrap enter no evaluator and leave every existing Lazy as it *)
(* is; a cache changes only in a force of that Lazy or of one derived from *)
(* it, from empty to present, and a present cache stays as it is.          *)

C24_Step ==
    /\ last'.op \in {"is_evaluated", "repr", "map", "zip", "flatten", "wrap"} =>
          NothingInvoked
    /\ \A id \in Ids :
          /\ heap'[id].evaluator = heap[id].evaluator
          /\ is_evaluated(heap[id]) => heap'[id] = heap[id]
          /\ heap'[id].result # heap[id].result =>
                /\ last'.op = "force"
                /\ last'.id = id \/ DerivedFrom(last'.id, id)
                /\ InSeq(id, last'.trace)
                /\ heap[id].result = NOTHING
                /\ is_some(heap'[id].result)

\* C24: in every step, only a force changes a cache, and only from empty to
\* present.
C24_OnlyForcingChanges == [][C24_Step]_vars

C24_Witness ==
    /\ last.op = "is_evaluated"
    /\ last.val = BoolV(FALSE)
    /\ Kind(last.id) = "map"
    /\ ~Evaluated(heap[last.id].evaluator.src)

---------------------------------------------------------------------------
(* C25: partial progress survives a failed force of a derived Lazy.  In a  *)
(* failed attempt the evaluators that were entered and did not return are  *)
(* those the exception came out of.                                        *)

RaisedIn(x) == InSeq(x, last.trace) /\ ~Evaluated(x)

\* A force of id from the current state, with any failure point, does not
\* enter the evaluator of a, leaves a as it is and runs id's computation.
RetrySpares(id, a) ==
    \A bad \in {0} \cup Ids :
       LET r == Lazy_call(State0, id, bad)
       IN  /\ ~InSeq(a, r.st.trace)
           /\ r.st.heap[a] = heap[a]
           /\ r.st.evals[a] = evals[a]
           /\ r.st.trace[1] = id

\* The operands the claim is about: all of them, or only those where a is
\* neither b nor derived from b.
Operands(a, b, independent) == independent => (a # b /\ ~DerivedFrom(a, b))

PartialProgress(independent) ==
    (last.op = "force" /\ ~last.ok) =>
       /\ Kind(last.id) = "zip" =>
             LET a == heap[last.id].evaluator.a
                 b == heap[last.id].evaluator.b
             IN  /\ (Operands(a, b, independent) /\ RaisedIn(b)) =>
                       /\ Evaluated(a)
                       /\ RetrySpares(last.id, a)
                 /\ (Operands(a, b, independent) /\ RaisedIn(a)) =>
                       ~InSeq(b, last.trace)
       /\ (Kind(last.id) = "map" /\ last.raised = last.id) =>
             /\ Evaluated(heap[last.id].evaluator.src)
             /\ RetrySpares(last.id, heap[last.id].evaluator.src)

UntouchedOther(independent) ==
    \A id \in Ids :
       (Forcing(id) /\ ~last'.ok /\ Kind(id) = "zip") =>
          LET a == heap[id].evaluator.a
              b == heap[id].evaluator.b
          IN  (Operands(a, b, independent)
                 /\ InSeq(a, last'.trace) /\ ~is_evaluated(heap'[a])) =>
                 /\ heap'[b] = heap[b]
                 /\ evals'[b] = evals[b]

(* C25 as claimed, for every a and b: when the force of a.zip(b) fails in  *)
(* b's evaluator, a is evaluated and a retry spares it; when it fails in   *)
(* a's evaluator, b's evaluator was not entered and b is unchanged; when   *)
(* the force of a.map(g) fails in g, a is evaluated and a retry spares it. *)
(* (An evaluator that was not entered has not changed its Lazy: C24.)      *)
C25_PartialProgressAll == PartialProgress(FALSE)

(* C25 as amended: the same for operands where a is not b and is not       *)
(* derived from b (in a.zip(a), or a.zip(b) with a = b.map(g), a's         *)
(* evaluation is what enters b's evaluator).                               *)
C25_PartialProgress ==
    []PartialProgress(TRUE) /\ [][UntouchedOther(TRUE)]_vars

C25_Witness ==
    /\ last.op = "force" /\ ~last.ok
    /\ Kind(last.id) = "zip"
    /\ Kind(heap[last.id].evaluator.a) = "fn"
    /\ last.raised = heap[last.id].evaluator.b
    /\ last.trace = <<last.id, heap[last.id].evaluator.a, heap[last.id].evaluator.b>>
    /\ Evaluated(heap[last.id].evaluator.a)
    /\ evals[heap[last.id].evaluator.a] = 1

---------------------------------------------------------------------------
(* C26: m.index(x) returns 0 when m is Some(v) with v == x and raises      *)
(* ValueError otherwise; m.count(x) is 1 when m is Some(v) with v == x and *)
(* 0 otherwise; reversed(m) yields what iterating m yields.  The index     *)
(* search ends at the IndexError of index 1 on Some, index 0 on Nothing.   *)

C26_InheritedSequence ==
    /\ mop.op = "index" =>
          IF is_some(mop.self) /\ mop.self.value = mop.arg
          THEN /\ mop.out.ok
               /\ mop.out.val = IntV(0)
               /\ mop.out.probes = <<0>>
          ELSE /\ ~mop.out.ok
               /\ mop.out.val.type = "ValueError"
               /\ mop.out.probes = (IF is_some(mop.self) THEN <<0, 1>> ELSE <<0>>)
    /\ mop.op = "count" =>
          mop.out = Ret(IntV(IF is_some(mop.self) /\ mop.self.value = mop.arg
                             THEN 1 ELSE 0))
    /\ mop.op = "reversed" =>
          mop.out = Ret(ListV(Maybe_iter(mop.self)))

C26_Witness ==
    /\ mop.op = "index"
    /\ mop.self = Some(IntV(0))
    /\ mop.arg = None
    /\ ~mop.out.ok
    /\ mop.out.val.type = "ValueError"
    /\ mop.out.probes = <<0, 1>>

====
